---- MODULE Spec2Model ----
(***************************************************************************)
(* A model of forge's command line driver (src/forge/cli.py): the fan-out  *)
(* combinator async_map, the registry existence check Baker.pushed with    *)
(* its pushed_cache, and the bake and push stages built on them.           *)
(*                                                                         *)
(* Scheduling is eventlet's: green threads are cooperative, so a thread    *)
(* runs from one suspension point (a subprocess or an HTTP request, or a   *)
(* thread.wait() on an unfinished thread) to the next without interleaving.*)
(* Every action below is one such run.                                     *)
(***************************************************************************)
EXTENDS Integers, Sequences, FiniteSets, TLC

(***************************************************************************)
(* Bounds of the model.                                                    *)
(***************************************************************************)
\* the longest input sequence handed to async_map by the harness
MaxItems == 3

\* the number of pushed/do_push calls the harness around one Baker makes
MaxCalls == 3

\* the number of records (containers) of the scanned services
MaxRecords == 2

\* services yaml is run over on its own
MaxServices == 3

\* work items, output lines of an item and terminal lines in render_tail
MaxWork == 2

MaxLines == 2

MaxHeight == 4

(***************************************************************************)
(* Values.  A Python value a task can return is a record with a type tag:  *)
(*   "val"       an ordinary result, `of` names the item it came from      *)
(*   "OMIT"      the OMIT marker (line 58)                                 *)
(*   "WorkError" a workstream.WorkError instance                           *)
(*   "CLIError"  a CLIError instance (line 56)                             *)
(*   "Other"     an exception of any other class                           *)
(* An outcome of running a function is the return of a value or the raise  *)
(* of an exception.                                                        *)
(***************************************************************************)
OMIT == [type |-> "OMIT", of |-> 0]

\* Python's None, what a function without a return value returns
None == [type |-> "None", of |-> 0]

Val(i) == [type |-> "val", of |-> i]

Exc(kind, i) == [type |-> kind, of |-> i]

\* Python's True and False
Bool(b) == [type |-> "bool", of |-> IF b THEN 1 ELSE 0]

\* CLIError(response.content), line 388: the error carries the raw body
ContentError(body) == [type |-> "CLIError", content |-> body]

\* the KeyError of result['errors'][0]['code'] (line 385) on an entry without a code
KeyError == [type |-> "Other", name |-> "KeyError"]

\* the TypeError of fun(*i) (line 83) when i does not unpack into fun's parameters
TypeError == [type |-> "Other", name |-> "TypeError"]

\* the WorkError of a failed command or request (workstream's call and get)
WorkError == [type |-> "WorkError", name |-> "WorkError"]

\* CLIError("%s task(s) had errors" % n), line 80
Aggregate(n) == [type |-> "CLIError", count |-> n]

Return(v) == [kind |-> "return", value |-> v]

Raise(e) == [kind |-> "raise", value |-> e]

NoOutcome == [kind |-> "none"]

\* what fun(item) does in the harness around async_map
Behaviours == {"value", "omit", "work", "cli", "other"}

\* the async_map generators of the program: the harness's ("map"), and those
\* of bake (lines 408, 412) and push (lines 425, 431)
Gens == {"map", "raw", "build", "local", "do_push", "render", "resources",
         "apply"}

\* the groups of green threads: those of each generator, and the calls the
\* harness around one Baker makes ("calls")
Pools == Gens \cup {"calls"}

VARIABLES
    sequence,   \* harness: the input of async_map, item i has behaviour sequence[i]
    threads,    \* per generator, threads (line 69): [item, st, outcome] each
    pc,         \* per generator, where its body is: "idle" (not started),
                \* "spawn" (70-71), "wait" (73-78), "done", "raised" (80),
                \* "thrown" (an exception left thread.wait(), line 74)
    pos,        \* per generator, the index of the thread the loop of line 73 is at
    errors,     \* per generator, errors (line 72)
    yielded,    \* per generator, the values it has yielded so far, in order
    main,       \* what the main green thread is executing
    raised,     \* how main's call ended: NoOutcome while it runs
    pushed_cache, \* Baker.pushed_cache (line 128): image reference -> boolean
    reg,        \* the registry: whether it holds a manifest for a reference
    loc,        \* the local docker daemon: whether it holds the image
    pops,       \* history: per reference, how often do_push removed its entry
    hist,       \* history: per reference, [popped, had, memo] (see HistPop,
                \* HistEnter): a do_push removed the entry since the last
                \* pushed call, it had an entry to remove, the value the last
                \* completed pushed call returned since the last removal
    logins,     \* the number of docker login commands issued (line 430)
    dr_frame,   \* a call of dr (lines 281-295): where it is, its argument
                \* expected and its locals response, opts and token
    wire,       \* the requests that call of dr has issued, in order
    items,      \* Workstream.items, the work items render_tail reads
    height,     \* Terminal.height, the limit render passes (line 257)
    screenful,  \* the lines render_tail has yielded (line 257), in order
    owners,     \* yaml's owners (line 452): resource name -> service
    conflicts,  \* yaml's conflicts (line 453)
    k8s_dirs,   \* yaml's k8s_dirs (line 454)
    dry_run     \* Baker.dry_run (line 568)

frames == <<dr_frame, wire, items, height, screenful, owners, conflicts, k8s_dirs,
            dry_run>>

baker == <<pushed_cache, reg, loc, pops, hist, logins, frames>>

vars == <<sequence, threads, pc, pos, errors, yielded, main, raised,
          pushed_cache, reg, loc, pops, hist, logins, dr_frame, wire, items,
          height, screenful, owners, conflicts, k8s_dirs, dry_run>>

(***************************************************************************)
(* safe (lines 60-66): a CLIError or a WorkError raised by f is caught and *)
(* returned as a value; any other exception propagates.                    *)
(***************************************************************************)
\* mutant: every exception is caught and returned
safe_catch_all(o) ==
    IF o.kind = "raise" THEN Return(o.value) ELSE o

safe(o) ==
    IF o.kind = "raise" /\ o.value.type = "CLIError" THEN Return(o.value)
    ELSE IF o.kind = "raise" /\ o.value.type = "WorkError" THEN Return(o.value)
    ELSE o

(***************************************************************************)
(* async_map (lines 68-80), one generator g.                               *)
(***************************************************************************)
\* eventlet.spawn(safe, fun, item), line 71: the thread exists, has not run
\* (afterFail and overtook are history: the thread started after a sibling had
\* failed; it finished while a thread spawned before it had not)
NoResp == [kind |-> "none"]

\* st is "spawned", then where the thread is suspended ("running" in the
\* harness's fun, "dr" in the request of line 378, "images" in the command of
\* line 365, "build" in that of line 413, "push" in that of line 420), then
\* "done".  resp is the response an unanswered request will get.  History:
\* afterFail (the thread started after a sibling had failed), overtook (it
\* finished while a thread spawned before it had not), epoch (pops of its
\* reference when it sent its request, -1: it sent none), stale (it returned
\* or stored a value requested before the latest removal), changed (its
\* classification changed pushed_cache), left (the entry of its reference
\* when its classification ended), afterPush (its pushed call is the
\* first since a do_push of the reference), removed (that do_push removed an
\* entry), expect (the memo of its reference when pushed was entered),
\* sawPushed and sawBaked (what pushed and baked returned to it), dry
\* (whether the kubectl apply it issued carried --dry-run)
NewThread(item) ==
    [item |-> item, st |-> "spawned", outcome |-> NoOutcome, resp |-> NoResp,
     afterFail |-> FALSE, overtook |-> FALSE, epoch |-> -1, stale |-> FALSE,
     changed |-> FALSE, left |-> "none", afterPush |-> FALSE, removed |-> FALSE,
     expect |-> "none", sawPushed |-> "none", sawBaked |-> "none",
     dry |-> "none"]

\* thread i of g has ended with a captured error or an exception
Failed(g, i) ==
    /\ threads[g][i].st = "done"
    /\ \/ threads[g][i].outcome.kind = "raise"
       \/ threads[g][i].outcome.value.type \in {"WorkError", "CLIError"}

\* the record of thread i of g, which was t, when its task ends with outcome o
Finished(g, i, t, o) ==
    [t EXCEPT
        !.st = "done",
        !.outcome = o,
        !.overtook = \E j \in 1..(i - 1) : threads[g][j].st # "done"]

\* mutant: the isinstance test of line 75 names the wrong error class
DispositionWrongClass(result) ==
    IF result.type = "CLIError" THEN "error"
    ELSE IF result # OMIT THEN "yield"
    ELSE "skip"

\* lines 75-78: what the loop does with the result of a thread
Disposition(result) ==
    IF result.type = "WorkError" THEN "error"
    ELSE IF result # OMIT THEN "yield"
    ELSE "skip"

\* thread.wait() would suspend the caller: the thread has not finished
Waiting(g) ==
    /\ pc[g] = "wait"
    /\ pos[g] <= Len(threads[g])
    /\ threads[g][pos[g]].st # "done"

\* lines 73-78, one iteration: thread.wait() returns or raises
WaitStep(g) ==
    /\ pc[g] = "wait"
    /\ pos[g] <= Len(threads[g])
    /\ LET t == threads[g][pos[g]] IN
        /\ t.st = "done"
        /\ IF t.outcome.kind = "raise"
           THEN /\ pc' = [pc EXCEPT ![g] = "thrown"]
                /\ UNCHANGED <<pos, errors, yielded>>
           ELSE /\ pos' = [pos EXCEPT ![g] = @ + 1]
                /\ errors' = IF Disposition(t.outcome.value) = "error"
                             THEN [errors EXCEPT ![g] = Append(@, t.outcome.value)]
                             ELSE errors
                /\ yielded' = IF Disposition(t.outcome.value) = "yield"
                              THEN [yielded EXCEPT ![g] = Append(@, t.outcome.value)]
                              ELSE yielded
                /\ UNCHANGED pc

\* mutant: fail fast, the error is raised as soon as one was collected
EndStepFailFast(g) ==
    /\ pc[g] = "wait"
    /\ pos[g] > Len(threads[g]) \/ errors[g] # <<>>
    /\ pc' = [pc EXCEPT ![g] = IF errors[g] # <<>> THEN "raised" ELSE "done"]
    /\ UNCHANGED <<pos, errors, yielded>>

\* lines 79-80: the loop of line 73 is exhausted
EndStep(g) ==
    /\ pc[g] = "wait"
    /\ pos[g] > Len(threads[g])
    /\ pc' = [pc EXCEPT ![g] = IF errors[g] # <<>> THEN "raised" ELSE "done"]
    /\ UNCHANGED <<pos, errors, yielded>>

\* the main green thread is suspended, so the hub runs the other threads
\* (in a thread.wait(), in the docker login of line 430, or, in the harness
\* around one Baker, serving its callers)
MainBlocked == main \in {"login", "serve"} \/ \E g \in Gens : Waiting(g)

\* the record of a thread of g, which was t, when it gets to run
Started(g, t) ==
    [t EXCEPT !.st = "running",
              !.afterFail = \E j \in 1..Len(threads[g]) : Failed(g, j)]

\* a spawned thread gets to run: safe(fun, item) is entered
TaskStart(g, i) ==
    /\ MainBlocked
    /\ i \in 1..Len(threads[g])
    /\ threads[g][i].st = "spawned"
    /\ threads' = [threads EXCEPT ![g][i] = Started(g, @)]

(***************************************************************************)
(* The Baker: image references, the registry, pushed and do_push.          *)
(***************************************************************************)
\* baker.registry and baker.repo (line 555), and another registry a caller
\* may name (line 186 passes registry and repo explicitly)
SelfRegistry == "r1"

OtherRegistry == "r2"

SelfRepo == "repo"

\* the version of the one service scanned (line 347)
Version == "v1"

\* the default of an optional parameter (line 368)
NoArg == "None"

\* common.image: the fully-qualified reference {registry}/{repo}/{name}:{version}
image(registry, repo, name, version) ==
    <<registry, "/", repo, "/", name, ":", version>>

\* lines 369-374: `registry or self.registry`, `repo or self.repo`, then image()
Img(name, version, registry, repo) ==
    image(IF registry = NoArg THEN SelfRegistry ELSE registry,
          IF repo = NoArg THEN SelfRepo ELSE repo,
          name, version)

\* the image names: record i of the pipeline has name i
Names == 1..MaxRecords

Refs == {image(r, SelfRepo, n, Version) :
            r \in {SelfRegistry, OtherRegistry}, n \in Names}

\* the reference a thread works on: a call of the harness names it, a task
\* of bake or push builds it from its record (lines 365, 374, 414, 432)
ImgOf(p, t) ==
    IF p = "calls" THEN t.item.img
    ELSE image(SelfRegistry, SelfRepo, t.item.of, Version)

\* parsed response bodies (line 380): whether the keys 'signatures', 'fsLayers'
\* and 'errors' are present, and the list under 'errors'
Body(sig, layers, has, errs) ==
    [signatures |-> sig, fsLayers |-> layers, hasErrors |-> has, errors |-> errs]

Manifest == Body(TRUE, TRUE, FALSE, <<>>)

ManifestUnknown == Body(FALSE, FALSE, TRUE, <<[code |-> "MANIFEST_UNKNOWN"]>>)

\* bodies that say neither: one key of a manifest, another error code, an
\* empty error list, an empty object, an error entry that has no 'code'
SignaturesOnly == Body(TRUE, FALSE, FALSE, <<>>)

NameUnknown == Body(FALSE, FALSE, TRUE, <<[code |-> "NAME_UNKNOWN"]>>)

EmptyErrors == Body(FALSE, FALSE, TRUE, <<>>)

EmptyObject == Body(FALSE, FALSE, FALSE, <<>>)

NoCode == Body(FALSE, FALSE, TRUE, <<[message |-> "denied"]>>)

OtherBodies == {SignaturesOnly, NameUnknown, EmptyErrors, EmptyObject, NoCode}

\* what the registry answers for a reference it holds, or does not hold
HonestBody(img) == IF reg[img] THEN Manifest ELSE ManifestUnknown

Tri(b) == IF b THEN "true" ELSE "false"

EmptyCache == [k \in {} |-> TRUE]

NoHist == [popped |-> FALSE, had |-> FALSE, memo |-> "none"]

\* no call of dr, no work item, yaml not entered
NoFrame == [pc |-> "idle"]

EmptyOwners == [k \in {} |-> 0]

FramesUnused ==
    /\ dr_frame = NoFrame
    /\ wire = <<>>
    /\ items = <<>>
    /\ height = 1
    /\ screenful = <<>>
    /\ owners = EmptyOwners
    /\ conflicts = <<>>
    /\ k8s_dirs = <<>>
    /\ dry_run = FALSE

BakerUnused ==
    /\ pushed_cache = EmptyCache
    /\ reg = [r \in Refs |-> FALSE]
    /\ loc = [r \in Refs |-> FALSE]
    /\ pops = [r \in Refs |-> 0]
    /\ hist = [r \in Refs |-> NoHist]
    /\ logins = 0
    /\ FramesUnused

\* lines 380-388: what pushed does with the parsed body of the response
Classify(body) ==
    IF body.signatures /\ body.fsLayers THEN Return(Bool(TRUE))
    ELSE IF body.hasErrors /\ body.errors # <<>>
    THEN IF "code" \notin DOMAIN body.errors[1] THEN Raise(KeyError)
         ELSE IF body.errors[1].code = "MANIFEST_UNKNOWN" THEN Return(Bool(FALSE))
         ELSE Raise(ContentError(body))
    ELSE Raise(ContentError(body))

\* mutant: the result is returned without being stored
CacheStoreNothing(img, o) == pushed_cache

\* lines 382 and 386: pushed_cache after pushed ended with o for img
CacheStore(img, o) ==
    IF o.kind = "return"
    THEN [k \in DOMAIN pushed_cache \cup {img} |->
            IF k = img THEN o.value = Bool(TRUE) ELSE pushed_cache[k]]
    ELSE pushed_cache

\* mutant: do_push does not invalidate
CacheWithoutNothing(img) == pushed_cache

\* line 419: self.pushed_cache.pop(img, None)
CacheWithout(img) ==
    [k \in DOMAIN pushed_cache \ {img} |-> pushed_cache[k]]

\* a function run by a generator's thread runs inside safe; a call of the
\* harness does not
Wrap(p, o) == IF p = "calls" THEN o ELSE safe(o)

\* mutant: `and` for `or`
is_raw_and(pushedv, bakedv) == ~(pushedv /\ bakedv)

\* line 403: not (pushed or baked)
is_raw(pushedv, bakedv) == ~(pushedv \/ bakedv)

\* lines 426-427: baked and not pushed
qualifies(bakedv, pushedv) == bakedv /\ ~pushedv

\* lines 408-409 and 425-427: the record itself, or OMIT
Selected(t, cond) == IF cond THEN Return(t.item) ELSE Return(OMIT)

\* pushed has returned or raised o to thread i of p (which was t):
\*   a call of the harness ends with o;
\*   in is_raw (line 403) `or` ends the test when pushed is true, else baked
\*   is called (line 365);
\*   in the lambda of lines 425-427 baked was true, pushed decides
AfterPushed(p, i, t, o) ==
    LET t1 == [t EXCEPT !.sawPushed = IF o.kind = "raise" THEN "error"
                                      ELSE Tri(o.value = Bool(TRUE))]
    IN  IF p = "calls" \/ o.kind = "raise" THEN Finished(p, i, t1, Wrap(p, o))
        ELSE IF p = "raw"
        THEN IF o.value = Bool(TRUE)
             THEN Finished(p, i, t1, Selected(t, is_raw(TRUE, FALSE)))
             ELSE [t1 EXCEPT !.st = "images"]
        ELSE Finished(p, i, t1, Selected(t, qualifies(TRUE, o.value = Bool(TRUE))))

\* lines 374-379: pushed is entered by thread i of p (which was t) for img: a
\* cached value is returned, else the request is sent and the thread suspends
EnterPushed(p, i, t, img) ==
    LET t1 == [t EXCEPT !.expect = hist[img].memo,
                        !.afterPush = hist[img].popped,
                        !.removed = hist[img].had]
    IN  IF img \in DOMAIN pushed_cache
        THEN AfterPushed(p, i, t1, Return(Bool(pushed_cache[img])))
        ELSE [t1 EXCEPT !.st = "dr", !.epoch = pops[img]]

\* history: a pushed call for img has begun; a hit completes it with the
\* cached value
HistEnter(img) ==
    [hist EXCEPT ![img] =
        [popped |-> FALSE, had |-> FALSE,
         memo |-> IF img \in DOMAIN pushed_cache
                  THEN Tri(pushed_cache[img]) ELSE @.memo]]

\* history: do_push removes the entry of img
HistPop(img) ==
    [hist EXCEPT ![img] =
        [popped |-> TRUE,
         had |-> img \in DOMAIN pushed_cache \/ (@.popped /\ @.had),
         memo |-> "none"]]

\* the registry, or what stands before it, answers the request of a thread
\* suspended in dr: some body with an expected status, or the request fails
\* (dr raises WorkError)
Serve(p, i, others) ==
    /\ MainBlocked
    /\ i \in 1..Len(threads[p])
    /\ threads[p][i].st = "dr"
    /\ threads[p][i].resp = NoResp
    /\ \E r \in {[kind |-> "body", body |-> b] :
                    b \in {HonestBody(ImgOf(p, threads[p][i]))} \cup others}
                \cup {[kind |-> "fail"]} :
        threads' = [threads EXCEPT ![p][i].resp = r]
    /\ UNCHANGED <<sequence, pc, pos, errors, yielded, main, raised, baker>>

\* lines 378-388: dr returns or raises, pushed classifies the body, stores
\* and returns, or raises; the caller goes on to its next suspension
PushedResume(p, i) ==
    /\ MainBlocked
    /\ i \in 1..Len(threads[p])
    /\ threads[p][i].st = "dr"
    /\ threads[p][i].resp # NoResp
    /\ LET t == threads[p][i]
           img == ImgOf(p, t)
           o == IF t.resp.kind = "fail" THEN Raise(WorkError)
                ELSE Classify(t.resp.body)
       IN  /\ pushed_cache' = CacheStore(img, o)
           /\ threads' = [threads EXCEPT ![p][i] =
                AfterPushed(p, i,
                    [t EXCEPT !.stale = (o.kind = "return" /\ t.epoch < pops[img]),
                              !.changed = (pushed_cache' # pushed_cache),
                              !.left = IF img \in DOMAIN pushed_cache'
                                       THEN Tri(pushed_cache'[img]) ELSE "none"],
                    o)]
           /\ hist' = IF o.kind = "return"
                      THEN [hist EXCEPT ![img].memo = Tri(o.value = Bool(TRUE))]
                      ELSE hist
    /\ UNCHANGED <<sequence, pc, pos, errors, yielded, main, raised, reg, loc, pops,
                   logins, frames>>

\* the result object of a command that ended as expected
CommandResult == [type |-> "result", of |-> 0]

\* line 420 returns or raises: docker push ended, the registry holds the
\* image if it succeeded
PushDone(p, i) ==
    /\ MainBlocked
    /\ i \in 1..Len(threads[p])
    /\ threads[p][i].st = "push"
    /\ \/ /\ reg' = [reg EXCEPT ![ImgOf(p, threads[p][i])] = TRUE]
          /\ threads' = [threads EXCEPT ![p][i] =
                Finished(p, i, @, Return(CommandResult))]
       \/ /\ reg' = reg
          /\ threads' = [threads EXCEPT ![p][i] =
                Finished(p, i, @, Wrap(p, Raise(WorkError)))]
    /\ UNCHANGED <<sequence, pc, pos, errors, yielded, main, raised,
                   pushed_cache, loc, pops, hist, logins, frames>>

(***************************************************************************)
(* The harness around one Baker: callers in green threads of their own     *)
(* call pushed (as line 186 does) and do_push (line 185) at any time.      *)
(***************************************************************************)
CallRefs == {image(r, SelfRepo, 1, Version) : r \in {SelfRegistry, OtherRegistry}}

InitCache ==
    /\ sequence = <<>>
    /\ threads = [g \in Pools |-> <<>>]
    /\ pc = [g \in Gens |-> "idle"]
    /\ pos = [g \in Gens |-> 1]
    /\ errors = [g \in Gens |-> <<>>]
    /\ yielded = [g \in Gens |-> <<>>]
    /\ main = "serve"
    /\ raised = NoOutcome
    /\ pushed_cache = EmptyCache
    /\ reg \in {f \in [Refs -> BOOLEAN] : \A r \in Refs \ CallRefs : ~f[r]}
    /\ loc = [r \in Refs |-> FALSE]
    /\ pops = [r \in Refs |-> 0]
    /\ hist = [r \in Refs |-> NoHist]
    /\ logins = 0
    /\ FramesUnused

\* no call for img is under way
Quiet(img) ==
    \A j \in 1..Len(threads["calls"]) :
        threads["calls"][j].st = "done" \/ threads["calls"][j].item.img # img

\* pushed(1, Version, registry=registry) is called (line 368) and runs to its
\* return or to its request
CallPushedOn(registry) ==
    /\ main = "serve"
    /\ Len(threads["calls"]) < MaxCalls
    /\ LET img == Img(1, Version, registry, NoArg)
           i == Len(threads["calls"]) + 1
       IN  /\ threads' = [threads EXCEPT !["calls"] = Append(@,
                EnterPushed("calls", i,
                    [NewThread([op |-> "pushed", img |-> img]) EXCEPT
                        !.st = "running"],
                    img))]
           /\ hist' = HistEnter(img)
    /\ UNCHANGED <<sequence, pc, pos, errors, yielded, main, raised,
                   pushed_cache, reg, loc, pops, logins, frames>>

\* do_push(img) is called (lines 418-420): the entry is removed and docker
\* push is issued
CallDoPushOn(img) ==
    /\ main = "serve"
    /\ Len(threads["calls"]) < MaxCalls
    /\ pushed_cache' = CacheWithout(img)
    /\ pops' = [pops EXCEPT ![img] = @ + 1]
    /\ hist' = HistPop(img)
    /\ threads' = [threads EXCEPT !["calls"] = Append(@,
            [NewThread([op |-> "do_push", img |-> img]) EXCEPT !.st = "push"])]
    /\ UNCHANGED <<sequence, pc, pos, errors, yielded, main, raised, reg, loc,
                   logins, frames>>

CallPushed == \E registry \in {NoArg, SelfRegistry, OtherRegistry} :
    CallPushedOn(registry)

CallDoPush == \E img \in CallRefs : CallDoPushOn(img)

CallServe == \E i \in 1..MaxCalls : Serve("calls", i, OtherBodies)

CallResume == \E i \in 1..MaxCalls : PushedResume("calls", i)

CallPushDone == \E i \in 1..MaxCalls : PushDone("calls", i)

NextCache ==
    \/ CallPushed
    \/ CallDoPush
    \/ CallServe
    \/ CallResume
    \/ CallPushDone

\* callers call at any time
SpecCache == InitCache /\ [][NextCache]_vars

\* the calls for one reference follow one another, as those of lines 185-186
\* and those of the pipeline's stages do; calls for different references overlap
SeqCallPushed == \E registry \in {NoArg, SelfRegistry, OtherRegistry} :
    Quiet(Img(1, Version, registry, NoArg)) /\ CallPushedOn(registry)

SeqCallDoPush == \E img \in CallRefs : Quiet(img) /\ CallDoPushOn(img)

\* (of the bodies that say neither, two stand for all: one pushed answers with
\* CLIError, one with KeyError)
SeqCallServe == \E i \in 1..MaxCalls : Serve("calls", i, {NameUnknown, NoCode})

NextPerRef ==
    \/ SeqCallPushed
    \/ SeqCallDoPush
    \/ SeqCallServe
    \/ CallResume
    \/ CallPushDone

SpecPerRef == InitCache /\ [][NextPerRef]_vars

(***************************************************************************)
(* The tasks of bake and push.                                             *)
(***************************************************************************)
PipeRefs == {image(SelfRegistry, SelfRepo, n, Version) : n \in Names}

\* the records containers(services) yields (lines 410, 428): record i has
\* image name i
Records == {[i \in 1..n |-> Val(i)] : n \in 0..MaxRecords}

\* a thread of the generator of line 408 gets to run: is_raw calls pushed
RawStart(i) ==
    /\ MainBlocked
    /\ i \in 1..Len(threads["raw"])
    /\ threads["raw"][i].st = "spawned"
    /\ LET img == ImgOf("raw", threads["raw"][i]) IN
        /\ threads' = [threads EXCEPT !["raw"][i] =
                EnterPushed("raw", i, Started("raw", @), img)]
        /\ hist' = HistEnter(img)
    /\ UNCHANGED <<sequence, pc, pos, errors, yielded, main, raised,
                   pushed_cache, reg, loc, pops, logins, frames>>

\* a thread of the generator of line 425 gets to run: baked is called first
\* and issues docker images (line 365)
LocalStart(i) ==
    /\ MainBlocked
    /\ i \in 1..Len(threads["local"])
    /\ threads["local"][i].st = "spawned"
    /\ threads' = [threads EXCEPT !["local"][i] =
            [Started("local", @) EXCEPT !.st = "images"]]
    /\ UNCHANGED <<sequence, pc, pos, errors, yielded, main, raised, baker>>

\* line 365-366: docker images ends; its output is empty unless the daemon
\* holds the image; a failed command raises WorkError.  In is_raw pushed was
\* false; in the lambda of line 426 pushed is called when baked is true
ImagesDone(p, i) ==
    /\ MainBlocked
    /\ i \in 1..Len(threads[p])
    /\ threads[p][i].st = "images"
    /\ LET t == threads[p][i]
           img == ImgOf(p, t)
           t1 == [t EXCEPT !.sawBaked = Tri(loc[img])]
       IN  \/ /\ p = "raw"
              /\ threads' = [threads EXCEPT ![p][i] =
                    Finished(p, i, t1, Selected(t, is_raw(FALSE, loc[img])))]
              /\ hist' = hist
           \/ /\ p = "local"
              /\ loc[img]
              /\ threads' = [threads EXCEPT ![p][i] = EnterPushed(p, i, t1, img)]
              /\ hist' = HistEnter(img)
           \/ /\ p = "local"
              /\ ~loc[img]
              /\ threads' = [threads EXCEPT ![p][i] =
                    Finished(p, i, t1, Selected(t, qualifies(FALSE, FALSE)))]
              /\ hist' = hist
           \/ /\ threads' = [threads EXCEPT ![p][i] =
                    Finished(p, i, [t EXCEPT !.sawBaked = "error"],
                             safe(Raise(WorkError)))]
              /\ hist' = hist
    /\ UNCHANGED <<sequence, pc, pos, errors, yielded, main, raised,
                   pushed_cache, reg, loc, pops, logins, frames>>

\* a thread of the generator of line 412 gets to run: fun(*i) of line 83
\* unpacks the record into the lambda of line 412, which issues docker build;
\* an item that is no record (a CLIError the inner generator yielded) does not
\* unpack into three arguments
BuildStart(i) ==
    /\ MainBlocked
    /\ i \in 1..Len(threads["build"])
    /\ threads["build"][i].st = "spawned"
    /\ threads' = [threads EXCEPT !["build"][i] =
            IF @.item.type = "val"
            THEN [Started("build", @) EXCEPT !.st = "build"]
            ELSE Finished("build", i, Started("build", @), safe(Raise(TypeError)))]
    /\ UNCHANGED <<sequence, pc, pos, errors, yielded, main, raised, baker>>

\* lines 413-415: docker build ends; the daemon holds the image if it succeeded
BuildDone(i) ==
    /\ MainBlocked
    /\ i \in 1..Len(threads["build"])
    /\ threads["build"][i].st = "build"
    /\ \/ /\ loc' = [loc EXCEPT ![ImgOf("build", threads["build"][i])] = TRUE]
          /\ threads' = [threads EXCEPT !["build"][i] =
                Finished("build", i, @, Return(CommandResult))]
       \/ /\ loc' = loc
          /\ threads' = [threads EXCEPT !["build"][i] =
                Finished("build", i, @, safe(Raise(WorkError)))]
    /\ UNCHANGED <<sequence, pc, pos, errors, yielded, main, raised,
                   pushed_cache, reg, pops, hist, logins, frames>>

\* a thread of the generator of line 431 gets to run: the lambda calls
\* do_push, which removes the entry (line 419) and issues docker push (line
\* 420); an item that is no record does not unpack into three arguments
DoPushStart(i) ==
    /\ MainBlocked
    /\ i \in 1..Len(threads["do_push"])
    /\ threads["do_push"][i].st = "spawned"
    /\ LET t == threads["do_push"][i]
           img == ImgOf("do_push", t)
       IN  IF t.item.type = "val"
           THEN /\ threads' = [threads EXCEPT !["do_push"][i] =
                        [Started("do_push", @) EXCEPT !.st = "push"]]
                /\ pushed_cache' = CacheWithout(img)
                /\ pops' = [pops EXCEPT ![img] = @ + 1]
                /\ hist' = HistPop(img)
           ELSE /\ threads' = [threads EXCEPT !["do_push"][i] =
                        Finished("do_push", i, Started("do_push", @),
                                 safe(Raise(TypeError)))]
                /\ UNCHANGED <<pushed_cache, pops, hist>>
    /\ UNCHANGED <<sequence, pc, pos, errors, yielded, main, raised, reg, loc,
                   logins, frames>>

(***************************************************************************)
(* bake (lines 405-416): force(build), where build maps docker build over  *)
(* raw, the generator that maps is_raw over the records.  build's loop of  *)
(* line 70 drives raw: each record raw yields is spawned a build thread at *)
(* once, and an exception leaving raw leaves build and bake.               *)
(***************************************************************************)
\* the daemon and the registry hold images of the records only
OnRecords(f) ==
    \A r \in Refs : f[r] => \E n \in 1..Len(sequence) :
                                r = image(SelfRegistry, SelfRepo, n, Version)

InitBake ==
    /\ sequence \in Records
    /\ threads = [g \in Pools |-> <<>>]
    /\ pc = [g \in Gens |-> IF g \in {"raw", "build"} THEN "spawn" ELSE "idle"]
    /\ pos = [g \in Gens |-> 1]
    /\ errors = [g \in Gens |-> <<>>]
    /\ yielded = [g \in Gens |-> <<>>]
    /\ main = "force"
    /\ raised = NoOutcome
    /\ pushed_cache = EmptyCache
    /\ reg \in {f \in [Refs -> BOOLEAN] : OnRecords(f)}
    /\ loc \in {f \in [Refs -> BOOLEAN] : OnRecords(f)}
    /\ pops = [r \in Refs |-> 0]
    /\ hist = [r \in Refs |-> NoHist]
    /\ logins = 0
    /\ FramesUnused

\* lines 70-71 of raw, one iteration over the records
BakeRawSpawn ==
    /\ main = "force"
    /\ pc["raw"] = "spawn"
    /\ Len(threads["raw"]) < Len(sequence)
    /\ threads' = [threads EXCEPT !["raw"] =
                      Append(@, NewThread(sequence[Len(threads["raw"]) + 1]))]
    /\ UNCHANGED <<sequence, pc, pos, errors, yielded, main, raised, baker>>

\* line 72 of raw
BakeRawSpawned ==
    /\ main = "force"
    /\ pc["raw"] = "spawn"
    /\ Len(threads["raw"]) = Len(sequence)
    /\ pc' = [pc EXCEPT !["raw"] = "wait"]
    /\ UNCHANGED <<sequence, threads, pos, errors, yielded, main, raised, baker>>

\* build's loop of line 70 pulls from raw: one iteration of raw's lines 73-78;
\* a record raw yields is spawned its build thread (line 71 of build)
BakeRawWait ==
    /\ main = "force"
    /\ pc["build"] = "spawn"
    /\ WaitStep("raw")
    /\ threads' = IF yielded'["raw"] # yielded["raw"]
                  THEN [threads EXCEPT !["build"] =
                          Append(@, NewThread(yielded'["raw"][Len(yielded'["raw"])]))]
                  ELSE threads
    /\ IF pc'["raw"] = "thrown"
       THEN /\ raised' = threads["raw"][pos["raw"]].outcome
            /\ main' = "ended"
       ELSE UNCHANGED <<main, raised>>
    /\ UNCHANGED <<sequence, baker>>

\* lines 79-80 of raw: its CLIError leaves build's loop of line 70 and bake,
\* else that loop is exhausted
BakeRawEnd ==
    /\ main = "force"
    /\ pc["build"] = "spawn"
    /\ EndStep("raw")
    /\ IF errors["raw"] # <<>>
       THEN /\ raised' = Raise(Aggregate(Len(errors["raw"])))
            /\ main' = "ended"
       ELSE UNCHANGED <<main, raised>>
    /\ UNCHANGED <<sequence, threads, baker>>

\* line 72 of build
BakeBuildSpawned ==
    /\ main = "force"
    /\ pc["raw"] = "done"
    /\ pc["build"] = "spawn"
    /\ pc' = [pc EXCEPT !["build"] = "wait"]
    /\ UNCHANGED <<sequence, threads, pos, errors, yielded, main, raised, baker>>

\* force pulls from build: one iteration of build's lines 73-78
BakeBuildWait ==
    /\ main = "force"
    /\ WaitStep("build")
    /\ IF pc'["build"] = "thrown"
       THEN /\ raised' = threads["build"][pos["build"]].outcome
            /\ main' = "ended"
       ELSE UNCHANGED <<main, raised>>
    /\ UNCHANGED <<sequence, threads, baker>>

\* lines 79-80 of build under force
BakeBuildEnd ==
    /\ main = "force"
    /\ EndStep("build")
    /\ raised' = IF errors["build"] # <<>>
                 THEN Raise(Aggregate(Len(errors["build"])))
                 ELSE Return(None)
    /\ main' = "ended"
    /\ UNCHANGED <<sequence, threads, baker>>

\* the responses the registry gives in the pipelines besides the honest one
PipeBodies == {NameUnknown, NoCode}

BakeRawStart == \E i \in Names : RawStart(i)

BakeRawServe == \E i \in Names : Serve("raw", i, PipeBodies)

BakeRawResume == \E i \in Names : PushedResume("raw", i)

BakeRawImages == \E i \in Names : ImagesDone("raw", i)

BakeBuildStart == \E i \in Names : BuildStart(i)

BakeBuildDone == \E i \in Names : BuildDone(i)

NextBake ==
    \/ BakeRawSpawn
    \/ BakeRawSpawned
    \/ BakeRawWait
    \/ BakeRawEnd
    \/ BakeBuildSpawned
    \/ BakeBuildWait
    \/ BakeBuildEnd
    \/ BakeRawStart
    \/ BakeRawServe
    \/ BakeRawResume
    \/ BakeRawImages
    \/ BakeBuildStart
    \/ BakeBuildDone

SpecBake == InitBake /\ [][NextBake]_vars

(***************************************************************************)
(* push (lines 422-433): the records to push are listed, docker login runs *)
(* if there is any, and do_push is mapped over the list.                   *)
(***************************************************************************)
\* pushed_cache as earlier calls of this process can have left it: an entry
\* says true only of an image the registry holds
InitPush ==
    /\ sequence \in Records
    /\ threads = [g \in Pools |-> <<>>]
    /\ pc = [g \in Gens |-> IF g = "local" THEN "spawn" ELSE "idle"]
    /\ pos = [g \in Gens |-> 1]
    /\ errors = [g \in Gens |-> <<>>]
    /\ yielded = [g \in Gens |-> <<>>]
    /\ main = "list"
    /\ raised = NoOutcome
    /\ reg \in {f \in [Refs -> BOOLEAN] : OnRecords(f)}
    /\ loc \in {f \in [Refs -> BOOLEAN] : OnRecords(f)}
    /\ pushed_cache \in UNION {[d -> BOOLEAN] : d \in SUBSET PipeRefs}
    /\ \A r \in DOMAIN pushed_cache : 
        /\ \E n \in 1..Len(sequence) : r = image(SelfRegistry, SelfRepo, n, Version)
        /\ pushed_cache[r] => reg[r]
    /\ pops = [r \in Refs |-> 0]
    /\ hist = [r \in Refs |-> NoHist]
    /\ logins = 0
    /\ FramesUnused

\* lines 70-71 of the generator of line 425, one iteration over the records
PushLocalSpawn ==
    /\ main = "list"
    /\ pc["local"] = "spawn"
    /\ Len(threads["local"]) < Len(sequence)
    /\ threads' = [threads EXCEPT !["local"] =
                      Append(@, NewThread(sequence[Len(threads["local"]) + 1]))]
    /\ UNCHANGED <<sequence, pc, pos, errors, yielded, main, raised, baker>>

\* line 72
PushLocalSpawned ==
    /\ main = "list"
    /\ pc["local"] = "spawn"
    /\ Len(threads["local"]) = Len(sequence)
    /\ pc' = [pc EXCEPT !["local"] = "wait"]
    /\ UNCHANGED <<sequence, threads, pos, errors, yielded, main, raised, baker>>

\* list() of line 425 pulls the next record: one iteration of lines 73-78
PushLocalWait ==
    /\ main = "list"
    /\ WaitStep("local")
    /\ IF pc'["local"] = "thrown"
       THEN /\ raised' = threads["local"][pos["local"]].outcome
            /\ main' = "ended"
       ELSE UNCHANGED <<main, raised>>
    /\ UNCHANGED <<sequence, threads, baker>>

\* lines 79-80 under list(): the CLIError leaves push, else local is bound
PushLocalEnd ==
    /\ main = "list"
    /\ EndStep("local")
    /\ IF errors["local"] # <<>>
       THEN /\ raised' = Raise(Aggregate(Len(errors["local"])))
            /\ main' = "ended"
       ELSE /\ main' = "listed"
            /\ raised' = raised
    /\ UNCHANGED <<sequence, threads, baker>>

\* lines 429-430: local is not empty, docker login is issued
PushLogin ==
    /\ main = "listed"
    /\ yielded["local"] # <<>>
    /\ main' = "login"
    /\ logins' = logins + 1
    /\ UNCHANGED <<sequence, threads, pc, pos, errors, yielded, raised,
                   pushed_cache, reg, loc, pops, hist, frames>>

\* line 429: local is empty; line 431 is next
PushNoLogin ==
    /\ main = "listed"
    /\ yielded["local"] = <<>>
    /\ main' = "force"
    /\ pc' = [pc EXCEPT !["do_push"] = "spawn"]
    /\ UNCHANGED <<sequence, threads, pos, errors, yielded, raised, baker>>

\* line 430: docker login ends; a failed command raises WorkError out of push
PushLoginDone ==
    /\ main = "login"
    /\ \/ /\ main' = "force"
          /\ pc' = [pc EXCEPT !["do_push"] = "spawn"]
          /\ raised' = raised
       \/ /\ main' = "ended"
          /\ raised' = Raise(WorkError)
          /\ pc' = pc
    /\ UNCHANGED <<sequence, threads, pos, errors, yielded, baker>>

\* lines 70-71 of the generator of line 431, one iteration over local
PushSpawn ==
    /\ main = "force"
    /\ pc["do_push"] = "spawn"
    /\ Len(threads["do_push"]) < Len(yielded["local"])
    /\ threads' = [threads EXCEPT !["do_push"] =
            Append(@, NewThread(yielded["local"][Len(threads["do_push"]) + 1]))]
    /\ UNCHANGED <<sequence, pc, pos, errors, yielded, main, raised, baker>>

\* line 72
PushSpawned ==
    /\ main = "force"
    /\ pc["do_push"] = "spawn"
    /\ Len(threads["do_push"]) = Len(yielded["local"])
    /\ pc' = [pc EXCEPT !["do_push"] = "wait"]
    /\ UNCHANGED <<sequence, threads, pos, errors, yielded, main, raised, baker>>

\* force pulls from the generator of line 431: one iteration of lines 73-78
PushWait ==
    /\ main = "force"
    /\ WaitStep("do_push")
    /\ IF pc'["do_push"] = "thrown"
       THEN /\ raised' = threads["do_push"][pos["do_push"]].outcome
            /\ main' = "ended"
       ELSE UNCHANGED <<main, raised>>
    /\ UNCHANGED <<sequence, threads, baker>>

\* lines 79-80 under force
PushEnd ==
    /\ main = "force"
    /\ EndStep("do_push")
    /\ raised' = IF errors["do_push"] # <<>>
                 THEN Raise(Aggregate(Len(errors["do_push"])))
                 ELSE Return(None)
    /\ main' = "ended"
    /\ UNCHANGED <<sequence, threads, baker>>

PushLocalStart == \E i \in Names : LocalStart(i)

PushLocalImages == \E i \in Names : ImagesDone("local", i)

PushLocalServe == \E i \in Names : Serve("local", i, PipeBodies)

PushLocalResume == \E i \in Names : PushedResume("local", i)

PushDoPushStart == \E i \in Names : DoPushStart(i)

PushDoPushDone == \E i \in Names : PushDone("do_push", i)

NextPush ==
    \/ PushLocalSpawn
    \/ PushLocalSpawned
    \/ PushLocalWait
    \/ PushLocalEnd
    \/ PushLogin
    \/ PushNoLogin
    \/ PushLoginDone
    \/ PushSpawn
    \/ PushSpawned
    \/ PushWait
    \/ PushEnd
    \/ PushLocalStart
    \/ PushLocalImages
    \/ PushLocalServe
    \/ PushLocalResume
    \/ PushDoPushStart
    \/ PushDoPushDone

SpecPush == InitPush /\ [][NextPush]_vars

(***************************************************************************)
(* The harness: force(async_map(fun, sequence)) on a finite list, where    *)
(* fun(item) suspends once and then behaves as the item says.              *)
(***************************************************************************)
fun(i) ==
    CASE sequence[i] = "value" -> Return(Val(i))
      [] sequence[i] = "omit"  -> Return(OMIT)
      [] sequence[i] = "work"  -> Raise(Exc("WorkError", i))
      [] sequence[i] = "cli"   -> Raise(Exc("CLIError", i))
      [] OTHER                 -> Raise(Exc("Other", i))

InitMap ==
    /\ sequence \in UNION {[1..n -> Behaviours] : n \in 0..MaxItems}
    /\ threads = [g \in Pools |-> <<>>]
    /\ pc = [g \in Gens |-> IF g = "map" THEN "spawn" ELSE "idle"]
    /\ pos = [g \in Gens |-> 1]
    /\ errors = [g \in Gens |-> <<>>]
    /\ yielded = [g \in Gens |-> <<>>]
    /\ main = "force"
    /\ raised = NoOutcome
    /\ BakerUnused

\* mutant: threads.insert(0, ...) instead of threads.append(...)
MapSpawnPrepend ==
    /\ main = "force"
    /\ pc["map"] = "spawn"
    /\ Len(threads["map"]) < Len(sequence)
    /\ threads' = [threads EXCEPT !["map"] =
                      <<NewThread(Len(threads["map"]) + 1)>> \o @]
    /\ UNCHANGED <<sequence, pc, pos, errors, yielded, main, raised, baker>>

\* lines 70-71, one iteration over the list
MapSpawn ==
    /\ main = "force"
    /\ pc["map"] = "spawn"
    /\ Len(threads["map"]) < Len(sequence)
    /\ threads' = [threads EXCEPT !["map"] =
                      Append(@, NewThread(Len(threads["map"]) + 1))]
    /\ UNCHANGED <<sequence, pc, pos, errors, yielded, main, raised, baker>>

\* the loop of line 70 is exhausted: line 72
MapSpawned ==
    /\ main = "force"
    /\ pc["map"] = "spawn"
    /\ Len(threads["map"]) = Len(sequence)
    /\ pc' = [pc EXCEPT !["map"] = "wait"]
    /\ UNCHANGED <<sequence, threads, pos, errors, yielded, main, raised, baker>>

MapTaskStart ==
    /\ \E i \in 1..MaxItems : TaskStart("map", i)
    /\ UNCHANGED <<sequence, pc, pos, errors, yielded, main, raised, baker>>

\* fun(item) returns or raises inside safe; the thread ends
MapTaskFinish ==
    /\ MainBlocked
    /\ \E i \in 1..Len(threads["map"]) :
        /\ threads["map"][i].st = "running"
        /\ threads' = [threads EXCEPT !["map"][i] =
                          Finished("map", i, threads["map"][i],
                                   safe(fun(threads["map"][i].item)))]
    /\ UNCHANGED <<sequence, pc, pos, errors, yielded, main, raised, baker>>

\* force (lines 85-86) pulls the next value: one iteration of lines 73-78;
\* an exception leaving the generator leaves force
MapWait ==
    /\ main = "force"
    /\ WaitStep("map")
    /\ IF pc'["map"] = "thrown"
       THEN /\ raised' = threads["map"][pos["map"]].outcome
            /\ main' = "ended"
       ELSE UNCHANGED <<main, raised>>
    /\ UNCHANGED <<sequence, threads, baker>>

\* lines 79-80 under force: StopIteration ends list(), CLIError leaves it
MapEnd ==
    /\ main = "force"
    /\ EndStep("map")
    /\ raised' = IF errors["map"] # <<>>
                 THEN Raise(Aggregate(Len(errors["map"])))
                 ELSE Return(None)
    /\ main' = "ended"
    /\ UNCHANGED <<sequence, threads, baker>>

NextMap ==
    \/ MapSpawn
    \/ MapSpawned
    \/ MapTaskStart
    \/ MapTaskFinish
    \/ MapWait
    \/ MapEnd

SpecMap == InitMap /\ [][NextMap]_vars

(***************************************************************************)
(* Claims about async_map, checked under SpecMap.                          *)
(***************************************************************************)
N == Len(sequence)

\* the items whose task raises exception class kind
Raising(kind) == {i \in 1..N : fun(i) = Raise(Exc(kind, i))}

RECURSIVE ValuesFrom(_)
\* the results of the tasks i..N that return a value other than OMIT, in input order
ValuesFrom(i) ==
    IF i > N THEN <<>>
    ELSE IF fun(i) = Return(Val(i)) THEN <<Val(i)>> \o ValuesFrom(i + 1)
    ELSE ValuesFrom(i + 1)

\* C1: the values async_map yields are in the order of the input items: of two
\* yielded results, the one of the earlier item is yielded first, whatever the
\* order in which the tasks completed.
C1_YieldedInInputOrder ==
    \A a, b \in 1..Len(yielded["map"]) :
        a < b => yielded["map"][a].of < yielded["map"][b].of

\* two results were yielded although the later item's task finished first
C1_Witness ==
    /\ Len(yielded["map"]) >= 2
    /\ \E i \in 1..Len(threads["map"]) :
        /\ threads["map"][i].overtook
        /\ \E b \in 2..Len(yielded["map"]) : yielded["map"][b].of = i

\* C2: when every task returns or fails with a WorkError, and k > 0 of them
\* fail, force ends with the one aggregate CLIError reporting k; when the error
\* is raised every result has been yielded, and the yielded sequence is exactly
\* the non-OMIT results of the successful tasks in input order.  Until then no
\* error has been raised.
C2_AggregateAfterResults ==
    (/\ Raising("CLIError") = {}
     /\ Raising("Other") = {}
     /\ Raising("WorkError") # {})
    => /\ main = "ended" =>
            /\ raised = Raise(Aggregate(Cardinality(Raising("WorkError"))))
            /\ yielded["map"] = ValuesFrom(1)
            /\ pc["map"] = "raised"
       /\ main # "ended" => raised = NoOutcome /\ pc["map"] \in {"spawn", "wait"}
       /\ raised # NoOutcome => yielded["map"] = ValuesFrom(1)

\* two of three tasks failed with a WorkError and a result was yielded before
\* the aggregate error reporting 2 was raised
C2_Witness ==
    /\ Raising("CLIError") = {} /\ Raising("Other") = {}
    /\ raised = Raise(Aggregate(2))
    /\ Len(yielded["map"]) >= 1

\* C3 (the claim as stated): a task that raises CLIError is counted in the
\* aggregate error like one that raises WorkError, and no captured error object
\* is yielded as a result.
C3_BothKindsCaptured ==
    /\ \A a \in 1..Len(yielded["map"]) :
        yielded["map"][a].type \notin {"CLIError", "WorkError"}
    /\ (main = "ended" /\ Raising("Other") = {}) =>
        LET k == Cardinality(Raising("WorkError") \cup Raising("CLIError")) IN
        raised = IF k > 0 THEN Raise(Aggregate(k)) ELSE Return(None)

\* C4: with a finite list, every task is spawned before any is awaited or runs;
\* and when the aggregate error is raised all N tasks have completed and have
\* been awaited, those that started after a sibling had failed included.
C4_FailureIsolated ==
    /\ (pc["map"] # "spawn" \/ pos["map"] > 1
        \/ \E i \in 1..Len(threads["map"]) : threads["map"][i].st # "spawned")
       => Len(threads["map"]) = N
    /\ (raised.kind = "raise" /\ raised.value = Aggregate(Len(errors["map"])))
       => /\ pos["map"] = N + 1
          /\ \A i \in 1..N : threads["map"][i].st = "done"

\* the aggregate error was raised after a task that started only once a
\* sibling had failed ran to completion
C4_Witness ==
    /\ raised.kind = "raise" /\ raised.value = Aggregate(Len(errors["map"]))
    /\ \E i \in 1..N :
        /\ threads["map"][i].afterFail
        /\ threads["map"][i].st = "done"
        /\ \E j \in 1..(i - 1) : Failed("map", j)

\* the first item whose task raises an exception of an unrecognized kind
FirstOther == CHOOSE i \in Raising("Other") : \A j \in Raising("Other") : i <= j

\* C21: an exception that is neither CLIError nor WorkError, raised by the
\* task of item i (the first such item), is not captured: it leaves async_map
\* unchanged when item i is awaited, after the results of the items before i
\* have been yielded in order; no aggregate error is raised for the failures
\* captured before i, and no item after i is ever awaited
C21_UnrecognizedPropagates ==
    Raising("Other") # {} =>
        /\ pos["map"] <= FirstOther
        /\ raised \in {NoOutcome, Raise(Exc("Other", FirstOther))}
        /\ \A a \in 1..Len(yielded["map"]) : yielded["map"][a].of < FirstOther
        /\ main = "ended" =>
            /\ raised = Raise(Exc("Other", FirstOther))
            /\ pc["map"] = "thrown"
            /\ pos["map"] = FirstOther
            /\ \A j \in 1..(FirstOther - 1) :
                fun(j) = Return(Val(j)) =>
                    \E a \in 1..Len(yielded["map"]) : yielded["map"][a] = Val(j)
            /\ \A a, b \in 1..Len(yielded["map"]) :
                a < b => yielded["map"][a].of < yielded["map"][b].of

\* the exception of item 2 has left force although item 1 had failed with a
\* WorkError: no aggregate error was raised, and the task of item 3 has not
\* ended
C21_Witness ==
    /\ N = 3
    /\ main = "ended"
    /\ raised = Raise(Exc("Other", 2))
    /\ Len(errors["map"]) = 1
    /\ threads["map"][3].st # "done"

(***************************************************************************)
(* Claims about pushed, do_push and pushed_cache.                          *)
(***************************************************************************)
\* the calls of pushed the harness has made
PushedCalls == {i \in 1..Len(threads["calls"]) : threads["calls"][i].item.op = "pushed"}

\* C7: when do_push(ref) has run, no entry for ref is cached, and the first
\* pushed(ref) called after it sends a request to the registry, whatever an
\* earlier pushed(ref) had cached (SpecPerRef: the calls for one reference
\* follow one another).
C7_FreshCheckAfterPush ==
    /\ \A img \in CallRefs :
        (hist[img].popped /\ Quiet(img)) => img \notin DOMAIN pushed_cache
    /\ \A i \in PushedCalls :
        threads["calls"][i].afterPush => threads["calls"][i].epoch >= 0

\* a pushed call that followed a do_push which removed a cached value has
\* queried the registry and returned what it holds now
C7_Witness ==
    \E i \in PushedCalls :
        /\ threads["calls"][i].afterPush
        /\ threads["calls"][i].removed
        /\ threads["calls"][i].epoch >= 0
        /\ threads["calls"][i].outcome = Return(Bool(TRUE))

\* C8 (the claim as stated): for every interleaving of pushed(ref) and
\* do_push(ref) calls, no pushed(ref) call returns or stores a value taken
\* from a response requested before the latest removal of ref's entry.
C8_NoValueFromBeforeInvalidation ==
    \A i \in PushedCalls : ~threads["calls"][i].stale

\* C9: once a pushed(ref) call has completed with value v and no do_push(ref)
\* intervened, a pushed(ref) call returns v on entry and sends no request; a
\* call for a reference with no such value sends a request, whatever is cached
\* for other references (SpecPerRef).
C9_Memoized ==
    \A i \in PushedCalls :
        LET t == threads["calls"][i] IN
        /\ t.expect # "none" =>
            /\ t.st = "done"
            /\ t.outcome = Return(Bool(t.expect = "true"))
            /\ t.epoch = -1
        /\ t.expect = "none" => t.epoch >= 0

\* a call was answered from the cache while the entry of another reference
\* held the other value
C9_Witness ==
    \E i \in PushedCalls :
        LET t == threads["calls"][i] IN
        /\ t.expect # "none"
        /\ t.st = "done"
        /\ t.epoch = -1
        /\ \E img \in DOMAIN pushed_cache :
            /\ img # t.item.img
            /\ pushed_cache[img] # (t.expect = "true")

\* C10 (the claim as stated): a body with 'signatures' and 'fsLayers' yields
\* true and caches true; a body whose first error has code MANIFEST_UNKNOWN
\* yields false and caches false; every other body raises an error carrying
\* the raw body and leaves pushed_cache unchanged.
C10_Classification ==
    \A i \in PushedCalls :
        LET t == threads["calls"][i] IN
        (t.st = "done" /\ t.resp # NoResp /\ t.resp.kind = "body") =>
            LET b == t.resp.body IN
            IF b.signatures /\ b.fsLayers
            THEN t.outcome = Return(Bool(TRUE)) /\ t.left = "true"
            ELSE IF /\ b.hasErrors
                    /\ b.errors # <<>>
                    /\ "code" \in DOMAIN b.errors[1]
                    /\ b.errors[1].code = "MANIFEST_UNKNOWN"
            THEN t.outcome = Return(Bool(FALSE)) /\ t.left = "false"
            ELSE /\ t.outcome = Raise(ContentError(b))
                 /\ ~t.changed


(***************************************************************************)
(* Claims about bake, checked under SpecBake.                              *)
(***************************************************************************)
\* docker build was issued by a thread of build
BuildIssued(b) == b.st = "build" \/ (b.st = "done" /\ b.outcome.kind = "return")

\* C5: a record for which pushed or baked returned true is not raw: its is_raw
\* task yields OMIT and no docker build is ever issued for it; a build is
\* issued only for a record whose is_raw check ended with true, that is after
\* pushed and baked both returned false for it
C5_IdempotentSkip ==
    /\ \A i \in 1..Len(threads["raw"]) :
        LET t == threads["raw"][i] IN
            (t.sawPushed = "true" \/ t.sawBaked = "true") =>
                /\ t.st = "done"
                /\ t.outcome = Return(OMIT)
                /\ \A j \in 1..Len(threads["build"]) :
                        threads["build"][j].item # t.item
    /\ \A j \in 1..Len(threads["build"]) :
        BuildIssued(threads["build"][j]) =>
            \E i \in 1..Len(threads["raw"]) :
                LET t == threads["raw"][i] IN
                    /\ t.item = threads["build"][j].item
                    /\ t.outcome = Return(t.item)
                    /\ t.sawPushed = "false"
                    /\ t.sawBaked = "false"

\* bake has ended; one record was skipped because the registry holds its
\* image, one because the daemon does, and no build was issued
C5_Witness ==
    /\ main = "ended"
    /\ raised = Return(None)
    /\ \E i \in 1..Len(threads["raw"]) : threads["raw"][i].sawPushed = "true"
    /\ \E i \in 1..Len(threads["raw"]) : threads["raw"][i].sawBaked = "true"
    /\ threads["build"] = <<>>

(***************************************************************************)
(* Claims about push, checked under SpecPush.                              *)
(***************************************************************************)
\* the records the checks of lines 426-427 found local and not remote
Qualifying ==
    {i \in 1..Len(threads["local"]) :
        /\ threads["local"][i].sawBaked = "true"
        /\ threads["local"][i].sawPushed = "false"}

\* docker push was issued by a thread of the generator of line 431
PushIssued(t) == t.st = "push" \/ (t.st = "done" /\ t.outcome.kind = "return")

\* never more than one login; a docker push is issued only after the one
\* login has completed; the entry of an image is removed before its push
LoginThenPopThenPush ==
    /\ logins <= 1
    /\ \A j \in 1..Len(threads["do_push"]) :
        PushIssued(threads["do_push"][j]) =>
            /\ logins = 1
            /\ main # "login"
            /\ pops[ImgOf("do_push", threads["do_push"][j])] = 1
            /\ ImgOf("do_push", threads["do_push"][j]) \notin DOMAIN pushed_cache

\* C6 as stated: whenever a record is local and not remote, push issues
\* exactly one docker login, it completes before any docker push is issued,
\* and the entry of each image is removed before its push is issued
C6_LoginWheneverQualifying ==
    /\ LoginThenPopThenPush
    /\ (main = "ended" /\ Qualifying # {}) => logins = 1

(***************************************************************************)
(* dr (lines 281-295): a registry request with the bearer handshake.       *)
(***************************************************************************)
ValueError == [type |-> "Other", name |-> "ValueError"]

Statuses == {200, 401, 404, 500}

\* Workstream.get returns a response whose status is 200 or one the caller
\* expects, and raises WorkError for any other
Accepts(status, expected) == status = 200 \/ status \in expected

\* the Www-Authenticate header of a response: its first word and the keys of
\* its key=value list, in order; NoHeader: the header is missing
NoHeader == [scheme |-> "none", params |-> <<>>]

Challenges ==
    {[scheme |-> sc, params |-> ps] :
        sc \in {"Bearer", "Digest"},
        ps \in {<<"realm", "service", "scope">>, <<"realm", "service">>,
                <<"qop", "realm", "service", "scope">>, <<>>}}
    \cup {NoHeader}

\* lines 286-288: the keys of opts.  "Bearer " is cut off the front (lines
\* 286-287); any other first word stays in front of the first key, which
\* parse_keqv_list then reads as one key "<word> <key>"
Keys(challenge) ==
    IF challenge.scheme = "Bearer"
    THEN {challenge.params[k] : k \in 1..Len(challenge.params)}
    ELSE {challenge.params[k] : k \in 2..Len(challenge.params)} \cup {"word key"}

\* lines 285-289, up to the format of the token URL: the exception raised, or
\* None.  A missing header is a KeyError (line 285); a challenge without any
\* key=value is an element parse_keqv_list cannot split ("Bearer" alone does
\* not start with "Bearer "); a key format() misses is a KeyError
Parse(challenge) ==
    IF challenge = NoHeader THEN Raise(KeyError)
    ELSE IF challenge.params = <<>> THEN Raise(ValueError)
    ELSE IF {"realm", "service", "scope"} \subseteq Keys(challenge)
    THEN Return(None)
    ELSE Raise(KeyError)

\* a request: where to, how authenticated, the statuses get is told to expect
Request(to, auth, expected) == [to |-> to, auth |-> auth, expected |-> expected]

\* a response: its status, its challenge, the request of the call it answers
Response(status, challenge, n) == [status |-> status, challenge |-> challenge, of |-> n]

\* the call has ended with outcome o
DrEnds(o) == [dr_frame EXCEPT !.pc = "done", !.outcome = o]

\* lines 281-284: dr(url, expected) is called and issues its first request
DrCall ==
    /\ dr_frame.pc = "idle"
    /\ \E expected \in SUBSET {401, 404} :
        /\ dr_frame' = [pc |-> "first", expected |-> expected,
                        first |-> Response(0, NoHeader, 0),
                        response |-> Response(0, NoHeader, 0),
                        token |-> FALSE, outcome |-> NoOutcome]
        /\ wire' = <<Request("url", "basic", expected \cup {401})>>
    /\ UNCHANGED <<sequence, threads, pc, pos, errors, yielded, main, raised,
                   pushed_cache, reg, loc, pops, hist, logins, items, height,
                   screenful, owners, conflicts, k8s_dirs, dry_run>>

\* lines 284-289: the first request is answered; a 401 is parsed and the
\* token is requested from realm with basic auth and get's default statuses
DrFirst ==
    /\ dr_frame.pc = "first"
    /\ \E status \in Statuses, challenge \in Challenges :
        /\ status # 401 => challenge = NoHeader
        /\ LET r == Response(status, challenge, 1)
               f == [dr_frame EXCEPT !.first = r, !.response = r]
           IN  IF ~Accepts(status, dr_frame.expected \cup {401})
               THEN /\ dr_frame' = DrEnds(Raise(WorkError))
                    /\ wire' = wire
               ELSE IF status # 401
               THEN /\ dr_frame' = [f EXCEPT !.pc = "done", !.outcome = Return(r)]
                    /\ wire' = wire
               ELSE IF Parse(challenge).kind = "raise"
               THEN /\ dr_frame' = [f EXCEPT !.pc = "done",
                                             !.outcome = Parse(challenge)]
                    /\ wire' = wire
               ELSE /\ dr_frame' = [f EXCEPT !.pc = "token"]
                    /\ wire' = Append(wire, Request("realm", "basic", {}))
    /\ UNCHANGED <<sequence, threads, pc, pos, errors, yielded, main, raised,
                   pushed_cache, reg, loc, pops, hist, logins, items, height,
                   screenful, owners, conflicts, k8s_dirs, dry_run>>

\* lines 289-292: the token request is answered: get raises WorkError, or the
\* body has no 'token' (KeyError), or the original URL is requested again
\* with the token and the caller's expected statuses
DrToken ==
    /\ dr_frame.pc = "token"
    /\ \/ /\ dr_frame' = DrEnds(Raise(WorkError))
          /\ wire' = wire
       \/ /\ dr_frame' = DrEnds(Raise(KeyError))
          /\ wire' = wire
       \/ /\ dr_frame' = [dr_frame EXCEPT !.pc = "retry", !.token = TRUE]
          /\ wire' = Append(wire, Request("url", "bearer", dr_frame.expected))
    /\ UNCHANGED <<sequence, threads, pc, pos, errors, yielded, main, raised,
                   pushed_cache, reg, loc, pops, hist, logins, items, height,
                   screenful, owners, conflicts, k8s_dirs, dry_run>>

\* mutant: the retry still tolerates 401
DrRetryTolerant ==
    /\ dr_frame.pc = "retry"
    /\ \E status \in Statuses :
        LET r == Response(status, NoHeader, Len(wire)) IN
            dr_frame' = IF Accepts(status, dr_frame.expected \cup {401})
                        THEN [dr_frame EXCEPT !.pc = "done", !.response = r,
                                              !.outcome = Return(r)]
                        ELSE DrEnds(Raise(WorkError))
    /\ UNCHANGED <<sequence, threads, pc, pos, errors, yielded, main, raised,
                   pushed_cache, reg, loc, pops, hist, logins, wire, items,
                   height, screenful, owners, conflicts, k8s_dirs, dry_run>>

\* lines 292-293: the retry is answered and its response is returned, or get
\* raises WorkError
DrRetry ==
    /\ dr_frame.pc = "retry"
    /\ \E status \in Statuses :
        LET r == Response(status, NoHeader, Len(wire)) IN
            dr_frame' = IF Accepts(status, dr_frame.expected)
                        THEN [dr_frame EXCEPT !.pc = "done", !.response = r,
                                              !.outcome = Return(r)]
                        ELSE DrEnds(Raise(WorkError))
    /\ UNCHANGED <<sequence, threads, pc, pos, errors, yielded, main, raised,
                   pushed_cache, reg, loc, pops, hist, logins, wire, items,
                   height, screenful, owners, conflicts, k8s_dirs, dry_run>>

InitDr ==
    /\ sequence = <<>>
    /\ threads = [g \in Pools |-> <<>>]
    /\ pc = [g \in Gens |-> "idle"]
    /\ pos = [g \in Gens |-> 1]
    /\ errors = [g \in Gens |-> <<>>]
    /\ yielded = [g \in Gens |-> <<>>]
    /\ main = "dr"
    /\ raised = NoOutcome
    /\ BakerUnused

NextDr ==
    \/ DrCall
    \/ DrFirst
    \/ DrToken
    \/ DrRetry

SpecDr == InitDr /\ [][NextDr]_vars

(***************************************************************************)
(* Claims about dr, checked under SpecDr.                                  *)
(***************************************************************************)
\* the first request was answered 401
Challenged == dr_frame.pc \in {"token", "retry", "done"} /\ dr_frame.first.status = 401

\* the challenge names the Bearer scheme and carries realm, service and scope
BearerChallenge(challenge) ==
    /\ challenge.scheme = "Bearer"
    /\ \A k \in {"realm", "service", "scope"} :
        \E j \in 1..Len(challenge.params) : challenge.params[j] = k

\* C11: after a 401 with a Bearer challenge carrying realm, service and scope,
\* dr requests a token from realm with basic auth, then requests the original
\* URL again with the bearer token and only the caller's expected statuses;
\* what dr returns after a 401 is the response to the retry, never the first
\* response, and not a 401 unless the caller expects 401; dr issues at most
\* three requests
C11_BearerHandshake ==
    /\ Len(wire) <= 3
    /\ (Challenged /\ BearerChallenge(dr_frame.first.challenge)) =>
        /\ Len(wire) >= 2
        /\ wire[2] = Request("realm", "basic", {})
        /\ dr_frame.token => /\ Len(wire) = 3
                             /\ wire[3] = Request("url", "bearer", dr_frame.expected)
    /\ (Challenged /\ dr_frame.outcome.kind = "return") =>
        /\ Len(wire) = 3
        /\ dr_frame.outcome.value.of = 3
        /\ dr_frame.outcome.value # dr_frame.first
        /\ 401 \notin dr_frame.expected => dr_frame.outcome.value.status # 401

\* a 401 with a Bearer challenge, then a token, then the retry's 200 returned
C11_Witness ==
    /\ dr_frame.pc = "done"
    /\ dr_frame.first.status = 401
    /\ BearerChallenge(dr_frame.first.challenge)
    /\ dr_frame.expected = {404}
    /\ Len(wire) = 3
    /\ dr_frame.outcome = Return(Response(200, NoHeader, 3))

\* C12: after a 401 whose challenge does not name the Bearer scheme, or lacks
\* realm, service or scope, dr issues no token request and no retry, and
\* ends with an error, not a response
C12_ProtocolError ==
    (Challenged /\ ~BearerChallenge(dr_frame.first.challenge)) =>
        /\ Len(wire) = 1
        /\ dr_frame.pc = "done"
        /\ dr_frame.outcome.kind = "raise"


(***************************************************************************)
(* render_tail (lines 236-254): the last lines of the progress display,    *)
(* newest first.                                                           *)
(***************************************************************************)
\* a work item: its flags and the number of lines of its output (0: empty);
\* ok is set when the item finishes
WorkItems ==
    {[finished |-> f, ok |-> o, visible |-> vi, verbose |-> ve, output |-> n] :
        f \in BOOLEAN, o \in BOOLEAN, vi \in BOOLEAN, ve \in BOOLEAN,
        n \in 0..MaxLines}

\* a rendered line: the item it is made from, and 0 for the summary line
\* (line 245) or j for the j-th line of the output (lines 248-249)
Line(i, j) == [item |-> i, line |-> j]

\* mutant: the output is shown for verbose items only
ItemLinesVerboseOnly(i) ==
    IF items[i].verbose /\ items[i].output > 0
    THEN [j \in 1..(items[i].output + 1) |-> Line(i, j - 1)]
    ELSE <<Line(i, 0)>>

\* lines 245-249: lines of item i, the summary first
ItemLines(i) ==
    IF (items[i].verbose \/ (items[i].finished /\ ~items[i].ok)) /\ items[i].output > 0
    THEN [j \in 1..(items[i].output + 1) |-> Line(i, j - 1)]
    ELSE <<Line(i, 0)>>

\* reversed(lines)
Reversed(s) == [j \in 1..Len(s) |-> s[Len(s) + 1 - j]]

\* lines 239-251 for items[i], items[i-1], ..., items[1] without the limit:
\* a finished item that is not visible is skipped (lines 240-241)
RECURSIVE TailFrom(_)
TailFrom(i) ==
    IF i = 0 THEN <<>>
    ELSE IF items[i].finished /\ ~items[i].visible THEN TailFrom(i - 1)
    ELSE Reversed(ItemLines(i)) \o TailFrom(i - 1)

\* lines 250-254: the generator returns once count >= limit, which is tested
\* after each yield, so that at least one line is yielded if there is any
render_tail(limit) ==
    LET all == TailFrom(Len(items))
        n == IF limit < 1 THEN 1 ELSE limit
    IN  IF Len(all) <= n THEN all ELSE SubSeq(all, 1, n)

InitTail ==
    /\ sequence = <<>>
    /\ threads = [g \in Pools |-> <<>>]
    /\ pc = [g \in Gens |-> "idle"]
    /\ pos = [g \in Gens |-> 1]
    /\ errors = [g \in Gens |-> <<>>]
    /\ yielded = [g \in Gens |-> <<>>]
    /\ main = "render"
    /\ raised = NoOutcome
    /\ pushed_cache = EmptyCache
    /\ reg = [r \in Refs |-> FALSE]
    /\ loc = [r \in Refs |-> FALSE]
    /\ pops = [r \in Refs |-> 0]
    /\ hist = [r \in Refs |-> NoHist]
    /\ logins = 0
    /\ dr_frame = NoFrame
    /\ wire = <<>>
    /\ items \in UNION {[1..n -> {w \in WorkItems : ~w.finished => ~w.ok}] :
                            n \in 0..MaxWork}
    /\ height \in 1..MaxHeight
    /\ screenful = <<>>
    /\ owners = EmptyOwners
    /\ conflicts = <<>>
    /\ k8s_dirs = <<>>
    /\ dry_run = FALSE

\* line 257: screenful = list(self.render_tail(self.terminal.height))
Render ==
    /\ main = "render"
    /\ screenful' = render_tail(height)
    /\ main' = "rendered"
    /\ UNCHANGED <<sequence, threads, pc, pos, errors, yielded, raised,
                   pushed_cache, reg, loc, pops, hist, logins, dr_frame, wire,
                   items, height, owners, conflicts, k8s_dirs, dry_run>>

NextTail == Render

SpecTail == InitTail /\ [][NextTail]_vars

(***************************************************************************)
(* Claims about render_tail, checked under SpecTail.                       *)
(***************************************************************************)
\* the positions of the tail that hold the summary line of item i
SummaryAt(i) == {p \in 1..Len(screenful) : screenful[p] = Line(i, 0)}

\* the output of item i is shown whole beneath its summary: render (lines
\* 259-265) writes the screenful last line first, so the lines beneath the
\* summary are the ones yielded just before it, the last output line first
OutputBeneath(i) ==
    \A p \in SummaryAt(i) :
        /\ p > items[i].output
        /\ \A j \in 1..items[i].output : screenful[p - j] = Line(i, j)

\* C17: no line of the rendered tail is made from an item whose visible flag
\* is false, whether the item is running, finished ok or finished failed
C17_InvisibleNeverRendered ==
    main = "rendered" =>
        \A p \in 1..Len(screenful) : items[screenful[p].item].visible

\* C18 as stated: every finished item with ok = false and a non-empty output
\* has its summary line in the tail with its output lines beneath it, even
\* when verbose is false; a finished item with ok = true and verbose = false
\* contributes its summary line only
C18_FailedOutputShown ==
    main = "rendered" =>
        \A i \in 1..Len(items) :
            /\ (items[i].finished /\ ~items[i].ok /\ items[i].output > 0) =>
                    (SummaryAt(i) # {} /\ OutputBeneath(i))
            /\ (items[i].finished /\ items[i].ok /\ ~items[i].verbose) =>
                    \A p \in 1..Len(screenful) :
                        screenful[p].item = i => screenful[p] = Line(i, 0)

\* C18, amended: the same for a visible item that the tail reaches: its
\* summary is in the tail unless the limit was hit first, and wherever its
\* summary is, its output lines are beneath it
C18_VisibleFailedOutputShown ==
    main = "rendered" =>
        \A i \in 1..Len(items) :
            /\ (items[i].finished /\ ~items[i].ok /\ items[i].output > 0
                    /\ items[i].visible) =>
                    /\ OutputBeneath(i)
                    /\ Len(screenful) < height => SummaryAt(i) # {}
            /\ (items[i].finished /\ items[i].ok /\ ~items[i].verbose) =>
                    \A p \in 1..Len(screenful) :
                        screenful[p].item = i => screenful[p] = Line(i, 0)

\* a failed, visible, not verbose item is shown with its two lines of output
\* above a newer item that finished ok
C18_Witness ==
    /\ main = "rendered"
    /\ Len(items) = 2
    /\ items[1] = [finished |-> TRUE, ok |-> FALSE, visible |-> TRUE,
                   verbose |-> FALSE, output |-> 2]
    /\ items[2].finished /\ items[2].ok /\ ~items[2].verbose /\ items[2].visible
    /\ screenful = <<Line(2, 0), Line(1, 2), Line(1, 1), Line(1, 0)>>


(***************************************************************************)
(* yaml (lines 449-468): the loop of line 456 runs over the generator that *)
(* maps resources over render, the generator that maps render_yaml over    *)
(* the services.  As in bake the outer loop of line 70 drives the inner    *)
(* generator, and an exception leaving the inner one leaves yaml.          *)
(***************************************************************************)
\* the names kubectl prints for a manifest directory (line 438)
ResourceLists == {<<>>, <<"web">>, <<"db">>, <<"web", "db">>}

\* the tuple the lambda of line 456 returns
Res(svc, resources) == [type |-> "res", of |-> svc, resources |-> resources]

\* a conflict, line 460
Conflict(resource, owner, svc) == [resource |-> resource, owner |-> owner, svc |-> svc]

\* line 467: the message joins "<resource> defined by <owner> and <svc>" over
\* conflicts, in order
ConflictError(cs) == [type |-> "CLIError", conflicts |-> cs]

\* line 468
Dirs(ds) == [type |-> "dirs", dirs |-> ds]

\* lines 459-463: the loop over the resources of one service
RECURSIVE Absorb(_, _, _, _)
Absorb(own, conf, svc, resources) ==
    IF resources = <<>> THEN [owners |-> own, conflicts |-> conf]
    ELSE IF Head(resources) \in DOMAIN own
    THEN Absorb(own, Append(conf, Conflict(Head(resources), own[Head(resources)], svc)),
                svc, Tail(resources))
    ELSE Absorb([k \in DOMAIN own \cup {Head(resources)} |->
                    IF k = Head(resources) THEN svc ELSE own[k]],
                conf, svc, Tail(resources))

\* a thread of render gets to run: render_yaml (lines 435-437)
RenderStart(i) ==
    /\ MainBlocked
    /\ i \in 1..Len(threads["render"])
    /\ threads["render"][i].st = "spawned"
    /\ threads' = [threads EXCEPT !["render"][i] =
            [Started("render", @) EXCEPT !.st = "deployment"]]
    /\ UNCHANGED <<sequence, pc, pos, errors, yielded, main, raised, baker>>

\* svc.deployment returns (line 437) or a command of it fails
RenderDone(i) ==
    /\ MainBlocked
    /\ i \in 1..Len(threads["render"])
    /\ threads["render"][i].st = "deployment"
    /\ \E o \in {Return(threads["render"][i].item), Raise(WorkError)} :
        threads' = [threads EXCEPT !["render"][i] =
                        Finished("render", i, @, safe(o))]
    /\ UNCHANGED <<sequence, pc, pos, errors, yielded, main, raised, baker>>

\* a thread of resources gets to run: kubectl apply --dry-run -o name is
\* issued (line 438)
ResourcesStart(i) ==
    /\ MainBlocked
    /\ i \in 1..Len(threads["resources"])
    /\ threads["resources"][i].st = "spawned"
    /\ threads' = [threads EXCEPT !["resources"][i] =
            [Started("resources", @) EXCEPT !.st = "kubectl", !.dry = "true"]]
    /\ UNCHANGED <<sequence, pc, pos, errors, yielded, main, raised, baker>>

\* the command ends: its output is split into names, or it failed
ResourcesDone(i) ==
    /\ MainBlocked
    /\ i \in 1..Len(threads["resources"])
    /\ threads["resources"][i].st = "kubectl"
    /\ \E o \in {Return(Res(threads["resources"][i].item.of, rs)) : rs \in ResourceLists}
                \cup {Raise(WorkError)} :
        threads' = [threads EXCEPT !["resources"][i] =
                        Finished("resources", i, @, safe(o))]
    /\ UNCHANGED <<sequence, pc, pos, errors, yielded, main, raised, baker>>

\* lines 70-71 of render, one iteration over the services
YamlRenderSpawn ==
    /\ main = "yaml"
    /\ pc["render"] = "spawn"
    /\ Len(threads["render"]) < Len(sequence)
    /\ threads' = [threads EXCEPT !["render"] =
                      Append(@, NewThread(sequence[Len(threads["render"]) + 1]))]
    /\ UNCHANGED <<sequence, pc, pos, errors, yielded, main, raised, baker>>

\* line 72 of render
YamlRenderSpawned ==
    /\ main = "yaml"
    /\ pc["render"] = "spawn"
    /\ Len(threads["render"]) = Len(sequence)
    /\ pc' = [pc EXCEPT !["render"] = "wait"]
    /\ UNCHANGED <<sequence, threads, pos, errors, yielded, main, raised, baker>>

\* the loop of line 70 of resources pulls from render: one iteration of
\* render's lines 73-78; a service it yields is spawned its resources thread
YamlRenderWait ==
    /\ main = "yaml"
    /\ pc["resources"] = "spawn"
    /\ WaitStep("render")
    /\ threads' = IF yielded'["render"] # yielded["render"]
                  THEN [threads EXCEPT !["resources"] =
                          Append(@, NewThread(yielded'["render"][Len(yielded'["render"])]))]
                  ELSE threads
    /\ IF pc'["render"] = "thrown"
       THEN /\ raised' = threads["render"][pos["render"]].outcome
            /\ main' = "ended"
       ELSE UNCHANGED <<main, raised>>
    /\ UNCHANGED <<sequence, baker>>

\* lines 79-80 of render: its CLIError leaves the loop of line 70 of
\* resources and yaml, else that loop is exhausted
YamlRenderEnd ==
    /\ main = "yaml"
    /\ pc["resources"] = "spawn"
    /\ EndStep("render")
    /\ IF errors["render"] # <<>>
       THEN /\ raised' = Raise(Aggregate(Len(errors["render"])))
            /\ main' = "ended"
       ELSE UNCHANGED <<main, raised>>
    /\ UNCHANGED <<sequence, threads, baker>>

\* line 72 of resources
YamlResourcesSpawned ==
    /\ main = "yaml"
    /\ pc["render"] = "done"
    /\ pc["resources"] = "spawn"
    /\ pc' = [pc EXCEPT !["resources"] = "wait"]
    /\ UNCHANGED <<sequence, threads, pos, errors, yielded, main, raised, baker>>

\* the loop of line 456 pulls from resources: one iteration of lines 73-78,
\* and lines 459-463 for a tuple it yields
YamlResourcesWait ==
    /\ main = "yaml"
    /\ WaitStep("resources")
    /\ IF pc'["resources"] = "thrown"
       THEN /\ raised' = threads["resources"][pos["resources"]].outcome
            /\ main' = "ended"
       ELSE UNCHANGED <<main, raised>>
    /\ IF yielded'["resources"] # yielded["resources"]
       THEN LET v == yielded'["resources"][Len(yielded'["resources"])]
                a == Absorb(owners, conflicts, v.of, v.resources)
            IN  /\ owners' = a.owners
                /\ conflicts' = a.conflicts
                /\ k8s_dirs' = Append(k8s_dirs, v.of)
       ELSE UNCHANGED <<owners, conflicts, k8s_dirs>>
    /\ UNCHANGED <<sequence, threads, pushed_cache, reg, loc, pops, hist, logins,
                   dr_frame, wire, items, height, screenful, dry_run>>

\* lines 79-80 of resources, else lines 465-468
YamlResourcesEnd ==
    /\ main = "yaml"
    /\ EndStep("resources")
    /\ raised' = IF errors["resources"] # <<>>
                 THEN Raise(Aggregate(Len(errors["resources"])))
                 ELSE IF conflicts # <<>> THEN Raise(ConflictError(conflicts))
                 ELSE Return(Dirs(k8s_dirs))
    /\ main' = "ended"
    /\ UNCHANGED <<sequence, threads, baker>>

\* yaml alone (line 573), over services 1, 2, ...
InitYaml ==
    /\ sequence \in {[i \in 1..n |-> Val(i)] : n \in 0..MaxServices}
    /\ threads = [g \in Pools |-> <<>>]
    /\ pc = [g \in Gens |-> IF g \in {"render", "resources"} THEN "spawn" ELSE "idle"]
    /\ pos = [g \in Gens |-> 1]
    /\ errors = [g \in Gens |-> <<>>]
    /\ yielded = [g \in Gens |-> <<>>]
    /\ main = "yaml"
    /\ raised = NoOutcome
    /\ BakerUnused

YamlRenderStart == \E i \in 1..MaxServices : RenderStart(i)

YamlRenderDone == \E i \in 1..MaxServices : RenderDone(i)

YamlResourcesStart == \E i \in 1..MaxServices : ResourcesStart(i)

YamlResourcesDone == \E i \in 1..MaxServices : ResourcesDone(i)

NextYaml ==
    \/ YamlRenderSpawn
    \/ YamlRenderSpawned
    \/ YamlRenderWait
    \/ YamlRenderEnd
    \/ YamlResourcesSpawned
    \/ YamlResourcesWait
    \/ YamlResourcesEnd
    \/ YamlRenderStart
    \/ YamlRenderDone
    \/ YamlResourcesStart
    \/ YamlResourcesDone

SpecYaml == InitYaml /\ [][NextYaml]_vars


(***************************************************************************)
(* Claims about yaml, checked under SpecYaml.                              *)
(***************************************************************************)
\* the services whose tuple the loop of line 456 has processed, and the
\* resources of such a service
Processed == {k8s_dirs[p] : p \in 1..Len(k8s_dirs)}

ResourcesOf(svc) ==
    (CHOOSE v \in {yielded["resources"][p] : p \in 1..Len(yielded["resources"])} :
        v.of = svc).resources

Claims(svc, resource) ==
    \E p \in 1..Len(ResourcesOf(svc)) : ResourcesOf(svc)[p] = resource

\* a task of yaml has failed
YamlTaskFailed ==
    \E g \in {"render", "resources"} : \E i \in 1..Len(threads[g]) : Failed(g, i)

\* owners are the first services in input order, whatever the completion order
OwnersInInputOrder ==
    \A r \in DOMAIN owners :
        /\ owners[r] \in Processed
        /\ Claims(owners[r], r)
        /\ \A i \in Processed : Claims(i, r) => owners[r] <= i

\* every claim of an owned resource by a later service is recorded
ConflictsRecorded ==
    \A i \in Processed, j \in Processed :
        \A r \in {"web", "db"} :
            (i < j /\ Claims(i, r) /\ Claims(j, r)) =>
                \E p \in 1..Len(conflicts) : conflicts[p] = Conflict(r, owners[r], j)

\* without conflict and task failure, one directory per service in input order
DirsReturned ==
    (main = "ended" /\ conflicts = <<>> /\ ~YamlTaskFailed) =>
        raised = Return(Dirs([i \in 1..Len(sequence) |-> i]))

\* C15: owners are assigned in service input order; every claim of an owned
\* resource by a later service is recorded as a conflict; if a conflict was
\* recorded yaml raises the error that lists every conflict and returns no
\* directory list; with no conflict and no task failure it returns one
\* directory per service in input order
C15_OwnershipConflicts ==
    /\ OwnersInInputOrder
    /\ ConflictsRecorded
    /\ DirsReturned
    /\ (main = "ended" /\ conflicts # <<>>) => raised = Raise(ConflictError(conflicts))


(***************************************************************************)
(* deploy (lines 476-478): build (lines 470-474) runs bake, push and yaml  *)
(* one after the other over the same scan, then apply_yaml is mapped over  *)
(* the directories yaml returned.  An exception leaving a stage leaves     *)
(* build, deploy and main.                                                 *)
(***************************************************************************)
Stages == <<{"raw", "build"}, {"local", "do_push"}, {"render", "resources"}, {"apply"}>>

\* the generators of a stage that has returned are garbage: of their threads
\* only the state, the outcome and the command are kept, the rest of the
\* history is dropped
Forget(t) ==
    [NewThread(t.item) EXCEPT !.st = t.st, !.outcome = t.outcome, !.dry = t.dry]

Forgotten(gs) ==
    [g \in Pools |-> IF g \in gs THEN [i \in 1..Len(threads[g]) |-> Forget(threads[g][i])]
                     ELSE threads[g]]

InitDeploy ==
    /\ sequence \in Records
    /\ threads = [g \in Pools |-> <<>>]
    /\ pc = [g \in Gens |-> IF g \in {"raw", "build"} THEN "spawn" ELSE "idle"]
    /\ pos = [g \in Gens |-> 1]
    /\ errors = [g \in Gens |-> <<>>]
    /\ yielded = [g \in Gens |-> <<>>]
    /\ main = "force"
    /\ raised = NoOutcome
    /\ pushed_cache = EmptyCache
    /\ reg \in {f \in [Refs -> BOOLEAN] : OnRecords(f)}
    /\ loc \in {f \in [Refs -> BOOLEAN] : OnRecords(f)}
    /\ pops = [r \in Refs |-> 0]
    /\ hist = [r \in Refs |-> NoHist]
    /\ logins = 0
    /\ dr_frame = NoFrame
    /\ wire = <<>>
    /\ items = <<>>
    /\ height = 1
    /\ screenful = <<>>
    /\ owners = EmptyOwners
    /\ conflicts = <<>>
    /\ k8s_dirs = <<>>
    /\ dry_run \in BOOLEAN

\* mutant: push is called while bake's generator is still being forced
BuildPushNoBarrier ==
    /\ main = "force"
    /\ pc["build"] = "wait"
    /\ pc["local"] = "idle"
    /\ main' = "list"
    /\ raised' = NoOutcome
    /\ pc' = [pc EXCEPT !["local"] = "spawn"]
    /\ threads' = Forgotten(Stages[1])
    /\ UNCHANGED <<sequence, pos, errors, yielded, baker>>

\* line 472 has returned: line 473 calls push
BuildPush ==
    /\ main = "ended"
    /\ raised = Return(None)
    /\ pc["build"] = "done"
    /\ pc["local"] = "idle"
    /\ main' = "list"
    /\ raised' = NoOutcome
    /\ pc' = [pc EXCEPT !["local"] = "spawn"]
    /\ threads' = Forgotten(Stages[1])
    /\ UNCHANGED <<sequence, pos, errors, yielded, baker>>

\* line 473 has returned: line 474 calls yaml
BuildYaml ==
    /\ main = "ended"
    /\ raised = Return(None)
    /\ pc["do_push"] = "done"
    /\ pc["render"] = "idle"
    /\ main' = "yaml"
    /\ raised' = NoOutcome
    /\ pc' = [pc EXCEPT !["render"] = "spawn", !["resources"] = "spawn"]
    /\ threads' = Forgotten(Stages[2])
    /\ UNCHANGED <<sequence, pos, errors, yielded, baker>>

\* mutant: the directories are applied however yaml ended
DeployApplyAnyway ==
    /\ main = "ended"
    /\ pc["resources"] \in {"done", "raised"}
    /\ pc["apply"] = "idle"
    /\ main' = "force"
    /\ raised' = NoOutcome
    /\ pc' = [pc EXCEPT !["apply"] = "spawn"]
    /\ threads' = Forgotten(Stages[3])
    /\ UNCHANGED <<sequence, pos, errors, yielded, baker>>

\* line 477 has bound k8s_dirs: line 478 maps apply_yaml over it
DeployApply ==
    /\ main = "ended"
    /\ raised = Return(Dirs(k8s_dirs))
    /\ pc["resources"] = "done"
    /\ pc["apply"] = "idle"
    /\ main' = "force"
    /\ raised' = NoOutcome
    /\ pc' = [pc EXCEPT !["apply"] = "spawn"]
    /\ threads' = Forgotten(Stages[3])
    /\ UNCHANGED <<sequence, pos, errors, yielded, baker>>

\* lines 70-71 of the generator of line 478, one iteration over k8s_dirs
ApplySpawn ==
    /\ main = "force"
    /\ pc["apply"] = "spawn"
    /\ Len(threads["apply"]) < Len(k8s_dirs)
    /\ threads' = [threads EXCEPT !["apply"] =
                      Append(@, NewThread(Val(k8s_dirs[Len(threads["apply"]) + 1])))]
    /\ UNCHANGED <<sequence, pc, pos, errors, yielded, main, raised, baker>>

\* line 72
ApplySpawned ==
    /\ main = "force"
    /\ pc["apply"] = "spawn"
    /\ Len(threads["apply"]) = Len(k8s_dirs)
    /\ pc' = [pc EXCEPT !["apply"] = "wait"]
    /\ UNCHANGED <<sequence, threads, pos, errors, yielded, main, raised, baker>>

\* force pulls from the generator of line 478: one iteration of lines 73-78
ApplyWait ==
    /\ main = "force"
    /\ WaitStep("apply")
    /\ IF pc'["apply"] = "thrown"
       THEN /\ raised' = threads["apply"][pos["apply"]].outcome
            /\ main' = "ended"
       ELSE UNCHANGED <<main, raised>>
    /\ UNCHANGED <<sequence, threads, baker>>

\* lines 79-80 under force
ApplyEnd ==
    /\ main = "force"
    /\ EndStep("apply")
    /\ raised' = IF errors["apply"] # <<>>
                 THEN Raise(Aggregate(Len(errors["apply"])))
                 ELSE Return(None)
    /\ main' = "ended"
    /\ UNCHANGED <<sequence, threads, baker>>

\* mutant: apply_yaml never adds --dry-run
ApplyStartForReal(i) ==
    /\ MainBlocked
    /\ i \in 1..Len(threads["apply"])
    /\ threads["apply"][i].st = "spawned"
    /\ threads' = [threads EXCEPT !["apply"][i] =
            [Started("apply", @) EXCEPT !.st = "kubectl", !.dry = "false"]]
    /\ UNCHANGED <<sequence, pc, pos, errors, yielded, main, raised, baker>>

\* a thread of the generator of line 478 gets to run: apply_yaml issues
\* kubectl apply -f, with --dry-run if self.dry_run (lines 441-444)
ApplyStart(i) ==
    /\ MainBlocked
    /\ i \in 1..Len(threads["apply"])
    /\ threads["apply"][i].st = "spawned"
    /\ threads' = [threads EXCEPT !["apply"][i] =
            [Started("apply", @) EXCEPT !.st = "kubectl", !.dry = Tri(dry_run)]]
    /\ UNCHANGED <<sequence, pc, pos, errors, yielded, main, raised, baker>>

\* the command ends
ApplyDone(i) ==
    /\ MainBlocked
    /\ i \in 1..Len(threads["apply"])
    /\ threads["apply"][i].st = "kubectl"
    /\ \E o \in {Return(CommandResult), Raise(WorkError)} :
        threads' = [threads EXCEPT !["apply"][i] = Finished("apply", i, @, safe(o))]
    /\ UNCHANGED <<sequence, pc, pos, errors, yielded, main, raised, baker>>

DeployApplyStart == \E i \in Names : ApplyStart(i)

DeployApplyDone == \E i \in Names : ApplyDone(i)

NextDeploy ==
    \/ NextBake
    \/ BuildPush
    \/ NextPush
    \/ BuildYaml
    \/ NextYaml
    \/ DeployApply
    \/ ApplySpawn
    \/ ApplySpawned
    \/ ApplyWait
    \/ ApplyEnd
    \/ DeployApplyStart
    \/ DeployApplyDone

SpecDeploy == InitDeploy /\ [][NextDeploy]_vars


(***************************************************************************)
(* Claims about build and deploy, checked under SpecDeploy.                *)
(***************************************************************************)
\* stage k has been entered, has a task running, has a task that has not
\* ended, has a task that failed
Entered(k) == \E g \in Stages[k] : pc[g] # "idle" \/ threads[g] # <<>>

Running(k) ==
    \E g \in Stages[k] : \E i \in 1..Len(threads[g]) :
        threads[g][i].st \notin {"spawned", "done"}

Unfinished(k) ==
    \E g \in Stages[k] : \E i \in 1..Len(threads[g]) : threads[g][i].st # "done"

FailedIn(k) == \E g \in Stages[k] : \E i \in 1..Len(threads[g]) : Failed(g, i)

\* docker login has failed: push has raised between its two generators
LoginFailed ==
    /\ main = "ended"
    /\ logins = 1
    /\ pc["local"] = "done"
    /\ pc["do_push"] = "idle"

\* C13: the stages are entered in the order bake, push, yaml, apply, and no
\* task of a later stage is spawned or issued while a task of an earlier
\* stage has not ended
C13_StageBarrier ==
    \A a \in 1..4, b \in 1..4 :
        (a < b /\ Entered(b)) =>
            /\ \A g \in Stages[a] : pc[g] = "done"
            /\ ~Unfinished(a)

\* deploy has run through: a build, a push and an enumeration have ended and
\* an apply is running
C13_Witness ==
    /\ \E i \in 1..Len(threads["build"]) :
            threads["build"][i].outcome = Return(CommandResult)
    /\ \E i \in 1..Len(threads["do_push"]) :
            threads["do_push"][i].outcome = Return(CommandResult)
    /\ threads["resources"] # <<>>
    /\ \E i \in 1..Len(threads["apply"]) : threads["apply"][i].st = "kubectl"

\* C14: no later stage is entered after a task of bake has failed; yaml and
\* apply are not entered after a task of push or the login has failed; apply
\* is not entered after a task of yaml has failed or a conflict was recorded
C14_FailedStageBlocks ==
    /\ raised.kind = "raise" => main = "ended"
    /\ \A a \in 1..4, b \in 1..4 : (a < b /\ FailedIn(a)) => ~Entered(b)
    /\ LoginFailed => (~Entered(3) /\ ~Entered(4))
    /\ conflicts # <<>> => ~Entered(4)

\* build has ended with a conflict error, a push has failed before, or the
\* login has, or a build has, and nothing later was entered
C14_Witness ==
    /\ main = "ended"
    /\ raised = Raise(ConflictError(conflicts))
    /\ Len(conflicts) = 1
    /\ ~Entered(4)

\* C16: in dry-run mode every kubectl apply that is issued, by resources and
\* by apply_yaml, carries --dry-run
C16_DryRunNeverMutates ==
    dry_run =>
        \A g \in {"resources", "apply"} : \A i \in 1..Len(threads[g]) :
            threads[g][i].st # "spawned" => threads[g][i].dry = "true"

\* in dry-run mode two directories have been applied, both with --dry-run
C16_Witness ==
    /\ dry_run
    /\ Len(threads["apply"]) = 2
    /\ \A i \in 1..2 : /\ threads["apply"][i].outcome = Return(CommandResult)
                       /\ threads["apply"][i].dry = "true"

\* C19: when bake or yaml has ended, by returning or by raising the aggregate
\* error of captured failures, no task it spawned is still running (has been
\* started and has not ended)
C19_NoTaskOutlivesStage ==
    (main = "ended" /\ (raised.kind = "return" \/ raised = Raise(Aggregate(1)))) =>
        \A k \in 1..4 : ~Running(k)

(***************************************************************************)
(* More claims about push, checked under SpecPush.                         *)
(***************************************************************************)
\* C20: push issues no docker login and no docker push when no record is
\* local and not remote, whether the checks ended with booleans or with an
\* error
C20_NoLoginWithoutQualifying ==
    (main \notin {"list", "listed"} /\ Qualifying = {}) =>
        /\ logins = 0
        /\ \A j \in 1..Len(threads["do_push"]) : ~PushIssued(threads["do_push"][j])

====
